---- MODULE Spec2Model ----
(***************************************************************************)
(* Proxy rotation and subtitle formatting of app.py.                       *)
(*                                                                         *)
(* The three API handlers fetch_subtitles, download_subtitle and           *)
(* download_thumbnail run on worker threads.  They share the module-level  *)
(* globals PROXIES_URLS_CLEANED and current_proxy_index and the process    *)
(* environment (HTTP_PROXY, HTTPS_PROXY).  Each handler is cut into the    *)
(* steps between which another thread can run: the subscript read of the   *)
(* cursor, the load and the store of "current_proxy_index += 1", each      *)
(* assignment or deletion in os.environ, the downstream network call, and  *)
(* each iteration of the formatting loops.                                 *)
(*                                                                         *)
(* Text is a sequence of one-character strings.  A cue's start and         *)
(* duration are seconds held in units of half a millisecond, so that       *)
(* "x * 1000" followed by int() truncates a fraction; the binary rounding  *)
(* of the float product itself is not modelled.                            *)
(*                                                                         *)
(* The account views register, reset_request and reset_token share the     *)
(* user table; each query and each commit is a step, and a clock in        *)
(* seconds runs beside them for the age of a password-reset token.         *)
(***************************************************************************)
EXTENDS Integers, Sequences, FiniteSets, TLC

VARIABLES
    PROXIES_URLS_CLEANED,   \* app.py:229, the pool, fixed at import time
    current_proxy_index,    \* app.py:230, the shared cursor
    environ,                \* os.environ restricted to HTTP_PROXY, HTTPS_PROXY
    req,                    \* per worker thread: the request it is handling
    handed,                 \* history: the proxies handed out, in order
    started,                \* history: number of requests received so far
    users,                  \* app.py:75-79, the rows of the user table
    outbox,                 \* the reset tokens mailed by send_reset_email
    now,                    \* the time in seconds
    view                    \* per worker thread: the account view it is serving

vars ==
    <<PROXIES_URLS_CLEANED, current_proxy_index, environ, req, handed, started,
      users, outbox, now, view>>

\* The state of the API handlers other than the request count, and the state
\* of the account views.
api_vars == <<PROXIES_URLS_CLEANED, current_proxy_index, environ, req, handed>>

auth_vars == <<users, outbox, now, view>>

-----------------------------------------------------------------------------
(* Bounds *)

NumThreads == 2         \* worker threads of the concurrent specification
MaxRequests == 3        \* requests received in the concurrent specification
MaxSeqRequests == 5     \* requests received in the single-threaded specification
MaxPool == 3            \* largest configured pool
MaxCues == 2            \* longest transcript given to the formatter
MaxAuthRequests == 3    \* requests to the account views in one run
MaxTicks == 3           \* steps of the clock

\* app.py:90, the default of get_reset_token's expires_sec
expires_sec == 1800

\* One step of the clock.
TickSeconds == expires_sec \div 2

Threads == 1..NumThreads

None == "None"

\* The i-th configured endpoint.
ProxyName(i) == "proxy" \o ToString(i)

Pools == { [i \in 1..n |-> ProxyName(i)] : n \in 0..MaxPool }

-----------------------------------------------------------------------------
(* Text *)

NL == "\n"

Digit(d) == <<"0", "1", "2", "3", "4", "5", "6", "7", "8", "9">>[d + 1]

\* str(n) of a non-negative int.
RECURSIVE Str(_)
Str(n) == IF n < 10 THEN <<Digit(n)>> ELSE Str(n \div 10) \o <<Digit(n % 10)>>

Zeros(k) == [j \in 1..k |-> "0"]

\* The format specs "02" and "03" applied to a non-negative int: zero fill to
\* a minimum width, wider numbers are kept whole.
ZeroPad(n, width) ==
    LET s == Str(n)
    IN  IF Len(s) >= width THEN s ELSE Zeros(width - Len(s)) \o s

\* str.encode('utf-8') on the characters that occur: one byte for ASCII, two
\* for U+00E9.
Utf8(ch) ==
    CASE ch = NL -> <<10>>
      [] ch = " " -> <<32>>
      [] ch = "," -> <<44>>
      [] ch = "-" -> <<45>>
      [] ch = ":" -> <<58>>
      [] ch = ">" -> <<62>>
      [] ch = "H" -> <<72>>
      [] ch = "T" -> <<84>>
      [] ch = "a" -> <<97>>
      [] ch = "b" -> <<98>>
      [] ch = "e" -> <<101>>
      [] ch = "h" -> <<104>>
      [] ch = "i" -> <<105>>
      [] ch = "r" -> <<114>>
      [] ch = "e_acute" -> <<195, 169>>
      [] OTHER -> <<48 + CHOOSE d \in 0..9 : Digit(d) = ch>>

RECURSIVE Encode(_)
Encode(text) == IF text = <<>> THEN <<>> ELSE Utf8(Head(text)) \o Encode(Tail(text))

-----------------------------------------------------------------------------
(* Proxy selection: app.py:414-418, repeated at 461-465 and 532-536 *)

\* Variant: the emptiness test is dropped.
PoolAlwaysConfigured == TRUE

\* "if PROXIES_URLS_CLEANED:", the truth value of the list.
PoolConfigured == Len(PROXIES_URLS_CLEANED) > 0

\* Variant: the cursor is used as the subscript without the modulo.
SelectIndexNoWrap(cursor, n) == cursor

\* Variant: the subscript is taken one past the cursor.
SelectIndexOffByOne(cursor, n) == (cursor + 1) % n

\* The subscript expression "current_proxy_index % len(PROXIES_URLS_CLEANED)".
SelectIndex(cursor, n) == cursor % n

\* list.__getitem__ with an int: negative subscripts count from the end, a
\* subscript outside the list raises IndexError.
Subscript(list, idx) ==
    IF idx >= 0 /\ idx < Len(list) THEN [raised |-> "", value |-> list[idx + 1]]
    ELSE IF idx < 0 /\ idx >= -Len(list)
         THEN [raised |-> "", value |-> list[Len(list) + idx + 1]]
         ELSE [raised |-> "IndexError", value |-> None]

\* The right-hand side of line 417 evaluated with the cursor at `cursor`; the
\* modulo raises ZeroDivisionError on an empty list.
SelectNext(cursor) ==
    IF Len(PROXIES_URLS_CLEANED) = 0
    THEN [raised |-> "ZeroDivisionError", value |-> None]
    ELSE Subscript(PROXIES_URLS_CLEANED,
                   SelectIndex(cursor, Len(PROXIES_URLS_CLEANED)))

\* Variant: the cursor advances by two.
IncrementedByTwo(loaded) == loaded + 2

\* The value "current_proxy_index += 1" stores, from the value it loaded.
Incremented(loaded) == loaded + 1

-----------------------------------------------------------------------------
(* Subtitle formatting: app.py:473-498 *)

\* int(x * 1000) of a number of seconds held in half milliseconds: int()
\* truncates toward zero.
IntMillis(halfms) == IF halfms >= 0 THEN halfms \div 2 ELSE -((-halfms) \div 2)

\* line 482: start_ms = int(entry['start'] * 1000)
StartMs(entry) == IntMillis(entry.start)

\* line 483: end_ms = int((entry['start'] + entry['duration']) * 1000)
EndMs(entry) == IntMillis(entry.start + entry.duration)

\* Variant: the remainder after the hours is not taken, so the minutes are
\* those of the whole duration.
format_timestamp_no_hour_remainder(ms) ==
    LET hours == ms \div 3600000
        minutes == ms \div 60000
        ms2 == ms % 60000
        seconds == ms2 \div 1000
        milliseconds == ms2 % 1000
    IN  ZeroPad(hours, 2) \o <<":">> \o ZeroPad(minutes, 2) \o <<":">>
            \o ZeroPad(seconds, 2) \o <<",">> \o ZeroPad(milliseconds, 3)

format_timestamp(ms) ==
    LET hours == ms \div 3600000
        ms1 == ms % 3600000
        minutes == ms1 \div 60000
        ms2 == ms1 % 60000
        seconds == ms2 \div 1000
        milliseconds == ms2 % 1000
    IN  ZeroPad(hours, 2) \o <<":">> \o ZeroPad(minutes, 2) \o <<":">>
            \o ZeroPad(seconds, 2) \o <<",">> \o ZeroPad(milliseconds, 3)

Arrow == <<" ", "-", "-", ">", " ">>

\* Variant: the newline after the text is missing.
TxtLineNoNewline(entry) == entry.text

\* What one iteration of the "txt" loop appends (line 477).
TxtLine(entry) == entry.text \o <<NL>>

\* Variant: the block is numbered with the zero-based position.
SrtBlockZeroBased(i, entry) ==
    Str(i) \o <<NL>>
        \o format_timestamp(StartMs(entry)) \o Arrow
        \o format_timestamp(EndMs(entry)) \o <<NL>>
        \o entry.text \o <<NL, NL>>

\* Variant: the block number continues from the shared proxy cursor.
SrtBlockNumberedFromCursor(i, entry) ==
    Str(current_proxy_index + i + 1) \o <<NL>>
        \o format_timestamp(StartMs(entry)) \o Arrow
        \o format_timestamp(EndMs(entry)) \o <<NL>>
        \o entry.text \o <<NL, NL>>

\* What one iteration of the "srt" loop appends (lines 494-496); i is
\* enumerate's zero-based position.
SrtBlock(i, entry) ==
    Str(i + 1) \o <<NL>>
        \o format_timestamp(StartMs(entry)) \o Arrow
        \o format_timestamp(EndMs(entry)) \o <<NL>>
        \o entry.text \o <<NL, NL>>

\* What the "srt" iteration has appended (lines 494-495) when entry['text']
\* on line 496 raises.
SrtBlockHead(i, entry) ==
    Str(i + 1) \o <<NL>>
        \o format_timestamp(StartMs(entry)) \o Arrow
        \o format_timestamp(EndMs(entry)) \o <<NL>>

\* entry[key]
HasKey(entry, key) == entry.missing # key

IsTxt(file_format) == file_format = "txt"

\* Variant: every format other than "txt" takes the "srt" branch.
IsNotTxt(file_format) == file_format # "txt"

IsSrt(file_format) == file_format = "srt"

\* Variant: an absent parameter defaults to "txt".
FormatParamDefaultTxt(arg) == IF arg = None THEN "txt" ELSE arg

\* request.args.get('format', 'srt'): an absent parameter takes the default.
FormatParam(arg) == IF arg = None THEN "srt" ELSE arg

Mimetype(file_format) ==
    IF IsTxt(file_format) THEN "text/plain" ELSE "application/x-subrip"

Filename(video_id, lang, file_format) ==
    video_id \o "_" \o lang \o "." \o file_format

-----------------------------------------------------------------------------
(* Requests and responses *)

NoResponse ==
    [status |-> 0, message |-> "", body |-> <<>>, mimetype |-> "", filename |-> ""]

\* jsonify({"success": ..., "message": ...}), status
Json(status, message) ==
    [status |-> status, message |-> message, body |-> <<>>, mimetype |-> "application/json",
     filename |-> ""]

\* send_file(buffer, mimetype=..., as_attachment=True, download_name=...)
SendFile(body, mimetype, filename) ==
    [status |-> 200, message |-> "file", body |-> body, mimetype |-> mimetype,
     filename |-> filename]

\* An exception that leaves the view function: Flask answers 500.
Unhandled(exc) ==
    [status |-> 500, message |-> exc, body |-> <<>>, mimetype |-> "text/html",
     filename |-> ""]

Idle ==
    [handler |-> "idle", pc |-> "idle",
     video_id |-> "", lang |-> "", format_arg |-> None, file_format |-> "",
     selected_proxy |-> None, read_index |-> -1, loaded |-> 0,
     called |-> FALSE, call_proxy |-> None, outcome |-> "",
     transcript |-> <<>>, i |-> 0, subtitle_content |-> <<>>,
     start_ms |-> 0, end_ms |-> 0, stamps |-> <<>>,
     response |-> NoResponse]

InProgress(t) == req[t].pc \notin {"idle", "done"}

NoEnv == [HTTP_PROXY |-> None, HTTPS_PROXY |-> None]

\* The proxy the requests library applies to an https call: the one passed
\* in `proxies`, else the one of the environment, else none.
AppliedProxy(explicit) == IF explicit # None THEN explicit ELSE environ.HTTPS_PROXY

Received(handler, video_id, lang, file_format) ==
    [Idle EXCEPT !.handler = handler, !.pc = "select", !.video_id = video_id,
                 !.lang = lang, !.file_format = file_format]

Rejected(handler, video_id, lang, file_format, message) ==
    [Idle EXCEPT !.handler = handler, !.pc = "done", !.video_id = video_id,
                 !.lang = lang, !.file_format = file_format,
                 !.response = Json(400, message)]

-----------------------------------------------------------------------------
(* Inputs *)

Payloads == [is_dict : BOOLEAN, videoId : {"", "vid"}]

VideoIds == {"", "vid"}

Langs == {"", "en"}

\* Further values of the videoId and lang parameters of a download.
MoreVideoIds == VideoIds \cup {"v2"}

MoreLangs == Langs \cup {"de"}

FormatArgs == {None, "txt", "srt", "xml"}

\* One entry of the list get_transcript returns: a dict with the keys 'text',
\* 'start' and 'duration'.  `missing` names a key the dict lacks ("" for none);
\* subscripting the dict with that key raises KeyError.
Cue(text, start, duration) ==
    [text |-> text, start |-> start, duration |-> duration, missing |-> ""]

\* Cue texts: empty, one line, two lines, one with a non-ASCII character.
Texts == {<<>>, <<"H", "i">>, <<"a", NL, "b">>, <<"e_acute">>}

\* (start, duration) pairs in half milliseconds.  0.0005 s + 0.0005 s is where
\* truncating the sum differs from summing the truncations; 3661.234 s,
\* 3600 s, 99:59:59,999 and 100 h are the cases of the timestamp rule.
Timings ==
    {<<0, 3000>>, <<3000, 4000>>, <<1, 1>>, <<1999, 0>>, <<119999, 1>>,
     <<7199999, 2>>, <<7200000, 122468>>, <<7322468, 0>>,
     <<719999999, 0>>, <<719999999, 1>>, <<720000000, 86400000>>}

RichCues ==
    {Cue(x, 0, 3000) : x \in Texts}
        \cup {Cue(<<"T", "h", "e", "r", "e">>, 3000, 4000)}
        \cup {Cue(<<"T">>, p[1], p[2]) : p \in Timings}

FewCues == {Cue(<<"H", "i">>, 0, 3000)}

\* Entries that lack one key each.
MalformedCues ==
    {[Cue(<<"T">>, 0, 3000) EXCEPT !.missing = key] : key \in {"text", "start", "duration"}}

\* The entries given to the formatter on its own.
FormatterCues == RichCues \cup MalformedCues

Transcripts(cues, maxlen) == UNION {[1..n -> cues] : n \in 0..maxlen}

LibraryOutcomes ==
    {"ok", "TranscriptsDisabled", "NoTranscriptFound", "RequestException", "Exception"}

ThumbnailOutcomes ==
    {"ok", "HTTPError404", "HTTPError", "ConnectionError", "Timeout", "Exception"}

-----------------------------------------------------------------------------
(* Handlers *)

Put(t, r) == req' = [req EXCEPT ![t] = r]

\* app.py:401-412
ReceiveFetch(t, payloads) ==
    /\ req[t].pc = "idle"
    /\ \E data \in payloads :
          Put(t, IF ~data.is_dict
                 THEN Rejected("fetch_subtitles", "", "", "", "invalid_payload")
                 ELSE IF data.videoId = ""
                      THEN Rejected("fetch_subtitles", "", "", "", "video_id_required")
                      ELSE Received("fetch_subtitles", data.videoId, "", ""))
    /\ started' = started + 1
    /\ UNCHANGED <<auth_vars, PROXIES_URLS_CLEANED, current_proxy_index, environ, handed>>

\* app.py:454-459
ReceiveDownload(t, video_ids, langs, format_args) ==
    /\ req[t].pc = "idle"
    /\ \E video_id \in video_ids, lang \in langs, arg \in format_args :
          Put(t, [(IF video_id = "" \/ lang = ""
                   THEN Rejected("download_subtitle", video_id, lang, FormatParam(arg),
                                 "video_id_and_lang_required")
                   ELSE Received("download_subtitle", video_id, lang, FormatParam(arg)))
                  EXCEPT !.format_arg = arg])
    /\ started' = started + 1
    /\ UNCHANGED <<auth_vars, PROXIES_URLS_CLEANED, current_proxy_index, environ, handed>>

\* Variant: the thumbnail handler goes on to the selection without testing
\* the videoId.
ReceiveThumbnailUnvalidated(t, video_ids) ==
    /\ req[t].pc = "idle"
    /\ \E video_id \in video_ids :
          Put(t, Received("download_thumbnail", video_id, "", ""))
    /\ started' = started + 1
    /\ UNCHANGED <<auth_vars, PROXIES_URLS_CLEANED, current_proxy_index, environ, handed>>

\* app.py:521-525
ReceiveThumbnail(t, video_ids) ==
    /\ req[t].pc = "idle"
    /\ \E video_id \in video_ids :
          Put(t, IF video_id = ""
                 THEN Rejected("download_thumbnail", "", "", "", "video_id_required")
                 ELSE Received("download_thumbnail", video_id, "", ""))
    /\ started' = started + 1
    /\ UNCHANGED <<auth_vars, PROXIES_URLS_CLEANED, current_proxy_index, environ, handed>>

\* Where a handler goes once the selection block is behind it: the two
\* caption handlers enter set_global_proxy_env when a proxy was selected,
\* download_thumbnail passes the proxy to requests.get itself.
AfterSelection(r) ==
    IF r.selected_proxy # None /\ r.handler # "download_thumbnail"
    THEN "set_http" ELSE "call"

\* app.py:415-417: selected_proxy = None; if the pool is non-empty, read the
\* cursor and subscript the pool.  The block is outside the try, so an
\* exception raised here leaves the view function.
Select(t) ==
    /\ req[t].pc = "select"
    /\ IF PoolConfigured
       THEN LET got == SelectNext(current_proxy_index)
            IN  IF got.raised # ""
                THEN /\ Put(t, [req[t] EXCEPT !.pc = "done",
                                              !.response = Unhandled(got.raised)])
                     /\ UNCHANGED handed
                ELSE /\ Put(t, [req[t] EXCEPT !.pc = "load",
                                              !.selected_proxy = got.value,
                                              !.read_index = current_proxy_index])
                     /\ handed' = Append(handed, got.value)
       ELSE /\ Put(t, [req[t] EXCEPT !.pc = AfterSelection(req[t])])
            /\ UNCHANGED handed
    /\ UNCHANGED <<auth_vars, PROXIES_URLS_CLEANED, current_proxy_index, environ, started>>

\* app.py:418, first half: "current_proxy_index += 1" loads the global
Load(t) ==
    /\ req[t].pc = "load"
    /\ Put(t, [req[t] EXCEPT !.pc = "store", !.loaded = current_proxy_index])
    /\ UNCHANGED <<auth_vars, PROXIES_URLS_CLEANED, current_proxy_index, environ, handed, started>>

\* app.py:418, second half: and stores the sum
Store(t) ==
    /\ req[t].pc = "store"
    /\ current_proxy_index' = Incremented(req[t].loaded)
    /\ Put(t, [req[t] EXCEPT !.pc = AfterSelection(req[t]), !.loaded = 0])
    /\ UNCHANGED <<auth_vars, PROXIES_URLS_CLEANED, environ, handed, started>>

\* app.py:234
SetHttpProxy(t) ==
    /\ req[t].pc = "set_http"
    /\ environ' = [environ EXCEPT !.HTTP_PROXY = req[t].selected_proxy]
    /\ Put(t, [req[t] EXCEPT !.pc = "set_https"])
    /\ UNCHANGED <<auth_vars, PROXIES_URLS_CLEANED, current_proxy_index, handed, started>>

\* app.py:235
SetHttpsProxy(t) ==
    /\ req[t].pc = "set_https"
    /\ environ' = [environ EXCEPT !.HTTPS_PROXY = req[t].selected_proxy]
    /\ Put(t, [req[t] EXCEPT !.pc = "call"])
    /\ UNCHANGED <<auth_vars, PROXIES_URLS_CLEANED, current_proxy_index, handed, started>>

\* The except clauses of fetch_subtitles (438-447) and download_subtitle (506-515).
CaptionError(outcome) ==
    CASE outcome = "TranscriptsDisabled" -> Json(404, "disabled")
      [] outcome = "NoTranscriptFound" -> Json(404, "not_found")
      [] outcome = "RequestException" -> Json(503, "network")
      [] OTHER -> Json(500, "unexpected")

\* The except clauses of download_thumbnail (562-579).
ThumbnailError(outcome) ==
    CASE outcome = "HTTPError404" -> Json(404, "thumbnail_not_found")
      [] outcome = "HTTPError" -> Json(500, "http_error")
      [] outcome = "ConnectionError" -> Json(503, "connection")
      [] outcome = "Timeout" -> Json(504, "timeout")
      [] OTHER -> Json(500, "unexpected")

\* app.py:424-436: YouTubeTranscriptApi.list_transcripts, which takes its
\* proxy from the environment at the time of the call.
CallListTranscripts(t, outcomes) ==
    /\ req[t].pc = "call" /\ req[t].handler = "fetch_subtitles"
    /\ \E outcome \in outcomes :
          Put(t, [req[t] EXCEPT !.pc = "check_http", !.called = TRUE,
                                !.call_proxy = AppliedProxy(None),
                                !.outcome = outcome,
                                !.response = IF outcome = "ok" THEN Json(200, "subtitles")
                                             ELSE CaptionError(outcome)])
    /\ UNCHANGED <<auth_vars, PROXIES_URLS_CLEANED, current_proxy_index, environ, handed, started>>

\* app.py:471-473: YouTubeTranscriptApi.get_transcript, then subtitle_content = ""
CallGetTranscript(t, transcripts, outcomes) ==
    /\ req[t].pc = "call" /\ req[t].handler = "download_subtitle"
    /\ \/ \E transcript \in transcripts :
             Put(t, [req[t] EXCEPT !.pc = "format", !.called = TRUE,
                                   !.call_proxy = AppliedProxy(None),
                                   !.outcome = "ok", !.transcript = transcript,
                                   !.i = 0, !.subtitle_content = <<>>])
       \/ \E outcome \in outcomes \ {"ok"} :
             Put(t, [req[t] EXCEPT !.pc = "check_http", !.called = TRUE,
                                   !.call_proxy = AppliedProxy(None),
                                   !.outcome = outcome,
                                   !.response = CaptionError(outcome)])
    /\ UNCHANGED <<auth_vars, PROXIES_URLS_CLEANED, current_proxy_index, environ, handed, started>>

\* app.py:539-560: requests.get(thumbnail_url, stream=True, proxies=proxies)
CallRequestsGet(t, outcomes) ==
    /\ req[t].pc = "call" /\ req[t].handler = "download_thumbnail"
    /\ \E outcome \in outcomes :
          Put(t, [req[t] EXCEPT !.pc = "check_http", !.called = TRUE,
                                !.call_proxy = AppliedProxy(req[t].selected_proxy),
                                !.outcome = outcome,
                                !.response = IF outcome = "ok"
                                             THEN SendFile(<<>>, "image/jpeg", "thumbnail")
                                             ELSE ThumbnailError(outcome)])
    /\ UNCHANGED <<auth_vars, PROXIES_URLS_CLEANED, current_proxy_index, environ, handed, started>>

\* Variant: what was assembled before the exception is sent as the file.
ExceptionSendsContent(r, exc) ==
    [r EXCEPT !.pc = "check_http", !.outcome = exc,
              !.response = SendFile(Encode(r.subtitle_content), Mimetype(r.file_format),
                                    Filename(r.video_id, r.lang, r.file_format))]

\* app.py:513-515: an exception raised inside the try block after the
\* retrieval is caught by "except Exception"; subtitle_content is a local
\* that is dropped.
ExceptionCaught(r, exc) ==
    [r EXCEPT !.pc = "check_http", !.outcome = exc, !.response = CaptionError(exc)]

\* app.py:475-477: one iteration of the "txt" loop
FormatTxtEntry(t) ==
    /\ req[t].pc = "format" /\ IsTxt(req[t].file_format)
    /\ req[t].i < Len(req[t].transcript)
    /\ LET entry == req[t].transcript[req[t].i + 1]
       IN  IF HasKey(entry, "text")
           THEN Put(t, [req[t] EXCEPT !.i = @ + 1,
                                      !.subtitle_content = @ \o TxtLine(entry)])
           ELSE Put(t, ExceptionCaught(req[t], "KeyError"))
    /\ UNCHANGED <<auth_vars, PROXIES_URLS_CLEANED, current_proxy_index, environ, handed, started>>

\* app.py:480-496: one iteration of the "srt" loop
FormatSrtEntry(t) ==
    /\ req[t].pc = "format" /\ ~IsTxt(req[t].file_format) /\ IsSrt(req[t].file_format)
    /\ req[t].i < Len(req[t].transcript)
    /\ LET entry == req[t].transcript[req[t].i + 1]
           timed == [req[t] EXCEPT !.start_ms = StartMs(entry),
                                   !.end_ms = EndMs(entry),
                                   !.stamps = <<format_timestamp(StartMs(entry)),
                                                format_timestamp(EndMs(entry))>>]
       IN  CASE ~HasKey(entry, "start") \/ ~HasKey(entry, "duration") ->
                    \* lines 482-483 raise before anything is rendered
                    Put(t, ExceptionCaught(req[t], "KeyError"))
             [] ~HasKey(entry, "text") ->
                    Put(t, ExceptionCaught(
                               [timed EXCEPT !.subtitle_content =
                                                 @ \o SrtBlockHead(req[t].i, entry)],
                               "KeyError"))
             [] OTHER ->
                    Put(t, [timed EXCEPT !.i = @ + 1,
                                         !.subtitle_content =
                                             @ \o SrtBlock(req[t].i, entry)])
    /\ UNCHANGED <<auth_vars, PROXIES_URLS_CLEANED, current_proxy_index, environ, handed, started>>

\* app.py:478-479, 497-498, 502-504: the loop is over; encode and send the file
SendSubtitle(t) ==
    /\ req[t].pc = "format" /\ (IsTxt(req[t].file_format) \/ IsSrt(req[t].file_format))
    /\ req[t].i = Len(req[t].transcript)
    /\ Put(t, [req[t] EXCEPT !.pc = "check_http",
                             !.response = SendFile(Encode(req[t].subtitle_content),
                                                   Mimetype(req[t].file_format),
                                                   Filename(req[t].video_id, req[t].lang,
                                                            req[t].file_format))])
    /\ UNCHANGED <<auth_vars, PROXIES_URLS_CLEANED, current_proxy_index, environ, handed, started>>

\* app.py:499-500
UnsupportedFormat(t) ==
    /\ req[t].pc = "format" /\ ~IsTxt(req[t].file_format) /\ ~IsSrt(req[t].file_format)
    /\ Put(t, [req[t] EXCEPT !.pc = "check_http",
                             !.response = Json(400, "unsupported_format")])
    /\ UNCHANGED <<auth_vars, PROXIES_URLS_CLEANED, current_proxy_index, environ, handed, started>>

\* app.py:240 and 242: "if 'HTTP_PROXY' in os.environ", then the same for
\* HTTPS_PROXY; the test and the deletion are separate steps.
CheckEnv(t) ==
    /\ req[t].pc \in {"check_http", "check_https"}
    /\ LET http == req[t].pc = "check_http"
           present == IF http THEN environ.HTTP_PROXY # None
                      ELSE environ.HTTPS_PROXY # None
       IN  Put(t, [req[t] EXCEPT !.pc = IF present
                                        THEN (IF http THEN "del_http" ELSE "del_https")
                                        ELSE (IF http THEN "check_https" ELSE "done")])
    /\ UNCHANGED <<auth_vars, PROXIES_URLS_CLEANED, current_proxy_index, environ, handed, started>>

\* Variant: only HTTP_PROXY is deleted; HTTPS_PROXY stays as it was set.
DelEnvHttpOnly(t) ==
    /\ req[t].pc \in {"del_http", "del_https"}
    /\ environ' = IF req[t].pc = "del_http" THEN [environ EXCEPT !.HTTP_PROXY = None]
                  ELSE environ
    /\ Put(t, [req[t] EXCEPT !.pc = IF req[t].pc = "del_http" THEN "check_https" ELSE "done"])
    /\ UNCHANGED <<auth_vars, PROXIES_URLS_CLEANED, current_proxy_index, handed, started>>

\* app.py:241 and 243: "del os.environ[...]", KeyError when another thread
\* has deleted the key since the test; the exception leaves the finally
\* clause and replaces the response.
DelEnv(t) ==
    /\ req[t].pc \in {"del_http", "del_https"}
    /\ LET http == req[t].pc = "del_http"
           present == IF http THEN environ.HTTP_PROXY # None
                      ELSE environ.HTTPS_PROXY # None
       IN  IF present
           THEN /\ environ' = IF http THEN [environ EXCEPT !.HTTP_PROXY = None]
                              ELSE [environ EXCEPT !.HTTPS_PROXY = None]
                /\ Put(t, [req[t] EXCEPT !.pc = IF http THEN "check_https" ELSE "done"])
           ELSE /\ UNCHANGED environ
                /\ Put(t, [req[t] EXCEPT !.pc = "done", !.response = Unhandled("KeyError")])
    /\ UNCHANGED <<auth_vars, PROXIES_URLS_CLEANED, current_proxy_index, handed, started>>

\* The response is sent and the worker thread is free for the next request.
Return(t) ==
    /\ req[t].pc = "done"
    /\ Put(t, Idle)
    /\ UNCHANGED <<auth_vars, PROXIES_URLS_CLEANED, current_proxy_index, environ, handed, started>>

-----------------------------------------------------------------------------
(* Accounts: the user table and the views register, reset_request and
   reset_token (app.py:75-101, 195-225, 613-677).  Every query and every
   commit is a step of its own; what a view does between two of them is
   part of the step that made the first. *)

\* werkzeug's generate_password_hash; only equality of hashes is used.
generate_password_hash(password) == <<"hash", password>>

\* A row of the user table (lines 76-79).  `via` is history: the code path
\* that inserted the row.
UserRow(id, username, email, password, via) ==
    [id |-> id, username |-> username, email |-> email,
     password_hash |-> generate_password_hash(password), via |-> via]

\* The autoincremented primary key of the next row.
NextId == Cardinality(users) + 1

\* app.py:693-701: run as a script, the application inserts a default admin
\* into an empty table before it serves; imported by a WSGI server it does not.
DefaultAdmin == UserRow(1, "admin", "admin@example.com", "password", "main")

InitialUsers == {{}, {DefaultAdmin}}

\* User.query.filter_by(username=...) and User.query.filter_by(email=...)
ByUsername(username) == {u \in users : u.username = username}

ByEmail(email) == {u \in users : u.email = email}

\* db.session.get(User, user_id)
ById(user_id) == {u \in users : u.id = user_id}

\* The responses of the views: a redirect with the message flashed, a
\* rendered template with the errors of its form, or an unhandled exception.
NoPage == [kind |-> "", target |-> "", flash |-> "", errors |-> {}]

Redirect(target, flash) ==
    [kind |-> "redirect", target |-> target, flash |-> flash, errors |-> {}]

Render(template, errors) ==
    [kind |-> "render", target |-> template, flash |-> "", errors |-> errors]

ServerError(exc) == [kind |-> "error", target |-> "", flash |-> exc, errors |-> {}]

\* A submitted form, or an unsubmitted one for a GET.
NoForm ==
    [submitted |-> FALSE, username |-> "", email |-> "", password |-> "", password2 |-> ""]

Post(username, email, password, password2) ==
    [submitted |-> TRUE, username |-> username, email |-> email,
     password |-> password, password2 |-> password2]

\* A serialized token: the payload, the timestamp URLSafeTimedSerializer
\* signs with it, and whether the signature is the application's.
NoToken == [user_id |-> 0, issued_at |-> 0, signed |-> FALSE]

ForgedToken == [NoToken EXCEPT !.user_id = 1]

\* The max_age that verify_reset_token passes to loads: none (line 98).
max_age_passed(expires) == {}

\* User.get_reset_token, lines 90-92; expires_sec is not used in the body.
get_reset_token(self, expires) ==
    [user_id |-> self.id, issued_at |-> now, signed |-> TRUE]

\* URLSafeTimedSerializer.loads(token, max_age): max_age is the empty set
\* for None, otherwise the set of the one number.
loads(token, max_age) ==
    CASE ~token.signed -> [raised |-> "BadSignature", user_id |-> 0]
      [] \E age \in max_age : now - token.issued_at > age ->
            [raised |-> "SignatureExpired", user_id |-> 0]
      [] OTHER -> [raised |-> "", user_id |-> token.user_id]

\* User.verify_reset_token, lines 94-101: the rows found, none for None.
verify_reset_token(token) ==
    LET loaded == loads(token, max_age_passed(expires_sec))
    IN  IF loaded.raised # "" THEN {} ELSE ById(loaded.user_id)

IdleView ==
    [view |-> "idle", pc |-> "idle", authenticated |-> FALSE, form |-> NoForm,
     token |-> NoToken, user_id |-> 0, verified_at |-> 0, response |-> NoPage]

Serve(t, v) == view' = [view EXCEPT ![t] = v]

Done(v, response) == [v EXCEPT !.pc = "done", !.response = response]

\* Inputs of the views.
RegisterForms ==
    {NoForm}
        \cup {Post(username, email, "pw", password2) :
                 username \in {"alice", "bobby", "al"}, email \in {"a@x", "b@x"},
                 password2 \in {"pw", "px"}}

ResetRequestForms ==
    {NoForm} \cup {Post("", email, "", "") : email \in {"", "a@x", "admin@example.com"}}

ResetPasswordForms == {NoForm, Post("", "", "new", "new"), Post("", "", "new", "nxw")}

\* app.py:616, the test "User.query.count() > 0" negated.
RegistrationOpen == Cardinality(users) = 0

\* app.py:613-624: the count query, the session test, and a GET
RegisterCount(t, forms) ==
    /\ view[t].pc = "idle"
    /\ \E authenticated \in BOOLEAN, form \in forms :
          LET v == [IdleView EXCEPT !.view = "register",
                                    !.authenticated = authenticated, !.form = form]
          IN  Serve(t, CASE ~RegistrationOpen ->
                                Done(v, Redirect("login", "registration_closed"))
                         [] authenticated -> Done(v, Redirect("admin.index", ""))
                         [] ~form.submitted -> Done(v, Render("register.html", {}))
                         [] OTHER -> [v EXCEPT !.pc = "validate"])
    /\ started' = started + 1
    /\ UNCHANGED <<users, outbox, now, api_vars>>

\* RegistrationForm (195-210): the validators of the fields and the two
\* uniqueness queries of validate_username and validate_email.
RegistrationErrors(form) ==
    (IF form.username = "" THEN {"username_required"}
     ELSE (IF Len(form.username) \notin 4..64 THEN {"username_length"} ELSE {})
              \cup (IF ByUsername(form.username) # {} THEN {"username_taken"} ELSE {}))
        \cup (IF form.email = "" THEN {"email_required"}
              ELSE IF ByEmail(form.email) # {} THEN {"email_taken"} ELSE {})
        \cup (IF form.password = "" THEN {"password_required"} ELSE {})
        \cup (IF form.password2 = "" THEN {"password2_required"}
              ELSE IF form.password2 # form.password THEN {"password2_equal"} ELSE {})

\* app.py:624 and 631: form.validate_on_submit() of a POST
RegisterValidate(t) ==
    /\ view[t].pc = "validate" /\ view[t].view = "register"
    /\ LET errors == RegistrationErrors(view[t].form)
       IN  Serve(t, IF errors = {} THEN [view[t] EXCEPT !.pc = "commit"]
                    ELSE Done(view[t], Render("register.html", errors)))
    /\ UNCHANGED <<users, outbox, now, started, api_vars>>

\* app.py:625-630: the insert; the unique constraints on username and email
\* (lines 77-78) make the commit raise IntegrityError.
RegisterCommit(t) ==
    /\ view[t].pc = "commit" /\ view[t].view = "register"
    /\ LET form == view[t].form
       IN  IF ByUsername(form.username) # {} \/ ByEmail(form.email) # {}
           THEN /\ UNCHANGED users
                /\ Serve(t, Done(view[t], ServerError("IntegrityError")))
           ELSE /\ users' = users \cup {UserRow(NextId, form.username, form.email,
                                                form.password, "register")}
                /\ Serve(t, Done(view[t], Redirect("login", "registered")))
    /\ UNCHANGED <<outbox, now, started, api_vars>>

\* app.py:648-651 and 661, with RequestResetForm.validate_email (217-220)
ResetRequestValidate(t, forms) ==
    /\ view[t].pc = "idle"
    /\ \E authenticated \in BOOLEAN, form \in forms :
          LET v == [IdleView EXCEPT !.view = "reset_request",
                                    !.authenticated = authenticated, !.form = form]
          IN  Serve(t, CASE authenticated -> Done(v, Redirect("admin.index", ""))
                         [] ~form.submitted -> Done(v, Render("reset_request.html", {}))
                         [] form.email = "" ->
                                Done(v, Render("reset_request.html", {"email_required"}))
                         [] ByEmail(form.email) = {} ->
                                Done(v, Render("reset_request.html", {"no_account"}))
                         [] OTHER -> [v EXCEPT !.pc = "lookup"])
    /\ started' = started + 1
    /\ UNCHANGED <<users, outbox, now, api_vars>>

\* app.py:652-660 with send_reset_email (633-644): the second query by email
ResetRequestLookup(t) ==
    /\ view[t].pc = "lookup" /\ view[t].view = "reset_request"
    /\ LET found == ByEmail(view[t].form.email)
       IN  IF found # {}
           THEN /\ outbox' = outbox \cup {get_reset_token(CHOOSE u \in found : TRUE,
                                                          expires_sec)}
                /\ Serve(t, Done(view[t], Redirect("login", "email_sent")))
           ELSE /\ UNCHANGED outbox
                /\ Serve(t, Done(view[t], Redirect("login", "if_account_exists")))
    /\ UNCHANGED <<users, now, started, api_vars>>

\* app.py:663-672 and 677: the token of the URL is verified, then the form
ResetTokenVerify(t, tokens, forms) ==
    /\ view[t].pc = "idle"
    /\ \E authenticated \in BOOLEAN, token \in tokens, form \in forms :
          LET v == [IdleView EXCEPT !.view = "reset_token", !.token = token,
                                    !.authenticated = authenticated, !.form = form,
                                    !.verified_at = now]
              found == verify_reset_token(token)
          IN  Serve(t, CASE authenticated -> Done(v, Redirect("admin.index", ""))
                         [] found = {} ->
                                Done(v, Redirect("reset_request", "invalid_or_expired"))
                         [] ~form.submitted -> Done(v, Render("reset_token.html", {}))
                         [] form.password2 # form.password ->
                                Done(v, Render("reset_token.html", {"password2_equal"}))
                         [] OTHER ->
                                [v EXCEPT !.pc = "set_password",
                                          !.user_id = (CHOOSE u \in found : TRUE).id])
    /\ started' = started + 1
    /\ UNCHANGED <<users, outbox, now, api_vars>>

\* app.py:673-676: user.set_password and the commit
ResetTokenCommit(t) ==
    /\ view[t].pc = "set_password" /\ view[t].view = "reset_token"
    /\ users' = {IF u.id = view[t].user_id
                 THEN [u EXCEPT !.password_hash =
                                    generate_password_hash(view[t].form.password)]
                 ELSE u : u \in users}
    /\ Serve(t, Done(view[t], Redirect("login", "password_updated")))
    /\ UNCHANGED <<outbox, now, started, api_vars>>

\* The response of a view is sent.
ReturnView(t) ==
    /\ view[t].pc = "done"
    /\ Serve(t, IdleView)
    /\ UNCHANGED <<users, outbox, now, started, api_vars>>

\* Time passes.
Tick ==
    /\ now < MaxTicks * TickSeconds
    /\ now' = now + TickSeconds
    /\ UNCHANGED <<users, outbox, view, started, api_vars>>

-----------------------------------------------------------------------------
(* Specifications *)

Init ==
    /\ PROXIES_URLS_CLEANED \in Pools
    /\ current_proxy_index = 0
    /\ environ = NoEnv
    /\ req = [t \in Threads |-> Idle]
    /\ handed = <<>>
    /\ started = 0
    /\ users = {}
    /\ outbox = {}
    /\ now = 0
    /\ view = [t \in Threads |-> IdleView]

\* The steps of the three handlers that follow validation.
Selection(t) == Select(t) \/ Load(t) \/ Store(t)

SetEnv(t) == SetHttpProxy(t) \/ SetHttpsProxy(t)

Format(t) ==
    \/ FormatTxtEntry(t)
    \/ FormatSrtEntry(t)
    \/ SendSubtitle(t)
    \/ UnsupportedFormat(t)

ClearEnv(t) == CheckEnv(t) \/ DelEnv(t)

Receive(t) ==
    \/ ReceiveFetch(t, Payloads)
    \/ ReceiveDownload(t, VideoIds, Langs, FormatArgs)
    \/ ReceiveThumbnail(t, VideoIds)

\* Requests handled concurrently by the worker threads.
Next ==
    \E t \in Threads :
        \/ started < MaxRequests /\ Receive(t)
        \/ Selection(t)
        \/ SetEnv(t)
        \/ CallListTranscripts(t, {"ok", "NoTranscriptFound"})
        \/ CallGetTranscript(t, Transcripts(FewCues, 1) \ {<<>>}, {"ok"})
        \/ CallRequestsGet(t, {"ok"})
        \/ Format(t)
        \/ ClearEnv(t)
        \/ Return(t)

Spec == Init /\ [][Next]_vars

\* One thread, one request at a time.
NextSeq ==
    \/ started < MaxSeqRequests /\ ReceiveFetch(1, Payloads)
    \/ started < MaxSeqRequests /\ ReceiveDownload(1, MoreVideoIds, MoreLangs, FormatArgs)
    \/ started < MaxSeqRequests /\ ReceiveThumbnail(1, VideoIds)
    \/ Selection(1)
    \/ SetEnv(1)
    \/ CallListTranscripts(1, LibraryOutcomes)
    \/ CallGetTranscript(1, Transcripts(FewCues, 1), LibraryOutcomes)
    \/ CallRequestsGet(1, ThumbnailOutcomes)
    \/ Format(1)
    \/ ClearEnv(1)
    \/ Return(1)

SpecSeq == Init /\ [][NextSeq]_vars

\* One download_subtitle request, over the formatter's inputs.
NextFmt ==
    \/ started < 1 /\ ReceiveDownload(1, {"vid"}, {"en"}, FormatArgs)
    \/ Selection(1)
    \/ SetEnv(1)
    \/ CallGetTranscript(1, Transcripts(FormatterCues, MaxCues), LibraryOutcomes)
    \/ Format(1)
    \/ ClearEnv(1)
    \/ Return(1)

InitFmt == Init /\ Len(PROXIES_URLS_CLEANED) <= 1

SpecFmt == InitFmt /\ [][NextFmt]_vars

\* The account views on concurrent worker threads, with no proxy configured
\* and no API request.
InitAuth ==
    /\ PROXIES_URLS_CLEANED = <<>>
    /\ current_proxy_index = 0
    /\ environ = NoEnv
    /\ req = [t \in Threads |-> Idle]
    /\ handed = <<>>
    /\ started = 0
    /\ users \in InitialUsers
    /\ outbox = {}
    /\ now = 0
    /\ view = [t \in Threads |-> IdleView]

NextAuth ==
    \/ Tick
    \/ \E t \in Threads :
          \/ started < MaxAuthRequests /\ RegisterCount(t, RegisterForms)
          \/ RegisterValidate(t)
          \/ RegisterCommit(t)
          \/ started < MaxAuthRequests /\ ResetRequestValidate(t, ResetRequestForms)
          \/ ResetRequestLookup(t)
          \/ started < MaxAuthRequests
                /\ ResetTokenVerify(t, outbox \cup {ForgedToken}, ResetPasswordForms)
          \/ ResetTokenCommit(t)
          \/ ReturnView(t)

SpecAuth == InitAuth /\ [][NextAuth]_vars

-----------------------------------------------------------------------------
(* Properties *)

Range(f) == {f[x] : x \in DOMAIN f}

Selected(t) == req[t].selected_proxy # None

Sent(t) == req[t].response.status = 200 /\ req[t].response.message = "file"

\* C1: in a single-threaded run over a non-empty pool of n proxies the k-th
\* selection hands out pool[(k-1) mod n], whichever handlers make the calls.
C1_RoundRobin ==
    \A k \in 1..Len(handed) :
        handed[k] = PROXIES_URLS_CLEANED[((k - 1) % Len(PROXIES_URLS_CLEANED)) + 1]

\* Five selections over a pool of three have gone A, B, C, A, B.
C1_FiveCalls ==
    /\ Len(PROXIES_URLS_CLEANED) = 3
    /\ handed = <<ProxyName(1), ProxyName(2), ProxyName(3), ProxyName(1), ProxyName(2)>>

\* C2: the downstream call of every request is made through the proxy that
\* request selected, and through none when it selected none.
C2_CallUsesOwnProxy ==
    \A t \in Threads : req[t].called => req[t].call_proxy = req[t].selected_proxy

C4_SameReadSameProxy ==
    \A t, u \in Threads :
        (Selected(t) /\ Selected(u) /\ req[t].read_index = req[u].read_index)
        => /\ req[t].selected_proxy = req[u].selected_proxy
           /\ req[t].selected_proxy =
                 PROXIES_URLS_CLEANED[(req[t].read_index % Len(PROXIES_URLS_CLEANED)) + 1]

\* Two requests in flight read the same cursor value before either stored
\* its increment: both hold the same proxy (reused), and after both
\* increments the cursor stands two past the value read, so the entry in
\* between is passed over (skipped).
C4_ReusedAndSkipped ==
    \E t, u \in Threads :
        /\ t # u
        /\ Selected(t) /\ Selected(u)
        /\ req[t].read_index = req[u].read_index
        /\ req[t].selected_proxy = req[u].selected_proxy
        /\ req[t].pc \notin {"load", "store"} /\ req[u].pc \notin {"load", "store"}
        /\ current_proxy_index = req[t].read_index + 2
        /\ Len(PROXIES_URLS_CLEANED) = 3

\* C5: with a non-empty pool the subscript of a selection is a valid index,
\* no selection raises, and what is selected is a member of the pool.
C5_SelectionInPool ==
    Len(PROXIES_URLS_CLEANED) > 0 =>
        /\ current_proxy_index >= 0
        /\ SelectIndex(current_proxy_index, Len(PROXIES_URLS_CLEANED))
              \in 0..(Len(PROXIES_URLS_CLEANED) - 1)
        /\ SelectNext(current_proxy_index).raised = ""
        /\ SelectNext(current_proxy_index).value \in Range(PROXIES_URLS_CLEANED)
        /\ \A t \in Threads :
              /\ req[t].response.message \notin {"IndexError", "ZeroDivisionError"}
              /\ req[t].pc \notin {"idle", "select", "done"} => Selected(t)
              /\ Selected(t) => req[t].selected_proxy \in Range(PROXIES_URLS_CLEANED)

\* A selection was made after the cursor had passed the end of the pool.
C5_Wrapped ==
    \E t \in Threads :
        /\ Selected(t)
        /\ req[t].read_index >= Len(PROXIES_URLS_CLEANED)
        /\ req[t].called

\* C6: with an empty pool no request ever holds a proxy, no downstream call
\* is made through one, the environment and the cursor are never touched and
\* no selection raises.
C6_EmptyPoolNoProxy ==
    Len(PROXIES_URLS_CLEANED) = 0 =>
        /\ current_proxy_index = 0
        /\ environ = NoEnv
        /\ handed = <<>>
        /\ \A t \in Threads :
              /\ req[t].selected_proxy = None
              /\ req[t].call_proxy = None
              /\ req[t].response.message \notin {"IndexError", "ZeroDivisionError"}

\* With an empty pool a caption download went through: its call was made,
\* without a proxy, and the file was sent.
C6_EmptyPoolCalls ==
    /\ Len(PROXIES_URLS_CLEANED) = 0
    /\ \E t \in Threads :
          /\ req[t].handler = "download_subtitle" /\ req[t].called /\ req[t].pc = "done"
          /\ req[t].call_proxy = None
          /\ Sent(t)

\* C7: the cursor never decreases from one state to the next.
C7_CursorNeverDecreases == [][current_proxy_index' >= current_proxy_index]_vars

\* The timestamp of the rule: HH:MM:SS,mmm of a count of milliseconds.
Rendered(ms) ==
    ZeroPad(ms \div 3600000, 2) \o <<":">> \o ZeroPad((ms \div 60000) % 60, 2) \o <<":">>
        \o ZeroPad((ms \div 1000) % 60, 2) \o <<",">> \o ZeroPad(ms % 1000, 3)

\* Block k (1-based) of the expected "srt" document: start and start + duration
\* are seconds in half milliseconds, truncated to milliseconds.
ExpectedBlock(k, cue) ==
    Str(k) \o <<NL>>
        \o Rendered(cue.start \div 2) \o <<" ", "-", "-", ">", " ">>
        \o Rendered((cue.start + cue.duration) \div 2) \o <<NL>>
        \o cue.text \o <<NL>> \o <<NL>>

RECURSIVE ExpectedSrt(_, _)
ExpectedSrt(cues, n) ==
    IF n = 0 THEN <<>> ELSE ExpectedSrt(cues, n - 1) \o ExpectedBlock(n, cues[n])

RECURSIVE ExpectedTxt(_, _)
ExpectedTxt(cues, n) ==
    IF n = 0 THEN <<>> ELSE ExpectedTxt(cues, n - 1) \o cues[n].text \o <<NL>>

Count(text, ch) == Cardinality({j \in 1..Len(text) : text[j] = ch})

\* The request of thread t got its transcript and takes the branch of `format`.
Formatting(t, format) ==
    /\ req[t].handler = "download_subtitle"
    /\ req[t].outcome = "ok"
    /\ req[t].file_format = format

\* C8: "srt" output is one block per cue in input order, block i being the
\* number i+1, the line "start --> end", the text and an empty line; what
\* is sent is the whole document, the empty string for no cues.
C8_SrtBlocks ==
    \A t \in Threads :
        Formatting(t, "srt") =>
            /\ req[t].subtitle_content = ExpectedSrt(req[t].transcript, req[t].i)
            /\ req[t].pc # "format" =>
                  /\ req[t].i = Len(req[t].transcript)
                  /\ Sent(t)
                  /\ req[t].response.body
                        = Encode(ExpectedSrt(req[t].transcript, Len(req[t].transcript)))
                  /\ Len(req[t].transcript) = 0 => req[t].response.body = <<>>

\* The two cues Hi (0.0 s, 1.5 s) and There (1.5 s, 2.0 s) were sent as "srt".
C8_TwoCuesSent ==
    \E t \in Threads :
        /\ Formatting(t, "srt") /\ Sent(t)
        /\ req[t].transcript = <<Cue(<<"H", "i">>, 0, 3000),
                                 Cue(<<"T", "h", "e", "r", "e">>, 3000, 4000)>>
        /\ req[t].subtitle_content =
              <<"1", NL>>
              \o <<"0","0",":","0","0",":","0","0",",","0","0","0">> \o Arrow
              \o <<"0","0",":","0","0",":","0","1",",","5","0","0">> \o <<NL>>
              \o <<"H", "i", NL, NL>>
              \o <<"2", NL>>
              \o <<"0","0",":","0","0",":","0","1",",","5","0","0">> \o Arrow
              \o <<"0","0",":","0","0",":","0","3",",","5","0","0">> \o <<NL>>
              \o <<"T", "h", "e", "r", "e", NL, NL>>

IsDigit(ch) == \E d \in 0..9 : Digit(d) = ch

DigitValue(ch) == CHOOSE d \in 0..9 : Digit(d) = ch

RECURSIVE ParseNat(_)
ParseNat(text) ==
    IF text = <<>> THEN 0
    ELSE 10 * ParseNat(SubSeq(text, 1, Len(text) - 1)) + DigitValue(text[Len(text)])

AllDigits(text) == \A j \in 1..Len(text) : IsDigit(text[j])

\* `stamp` reads as HH:MM:SS,mmm and its fields add up to ms.
ReadsAs(stamp, ms) ==
    LET n == Len(stamp)
        hh == SubSeq(stamp, 1, n - 10)
        mm == SubSeq(stamp, n - 8, n - 7)
        ss == SubSeq(stamp, n - 5, n - 4)
        mmm == SubSeq(stamp, n - 2, n)
    IN  /\ n >= 12
        /\ stamp[n - 9] = ":" /\ stamp[n - 6] = ":" /\ stamp[n - 3] = ","
        /\ AllDigits(hh) /\ AllDigits(mm) /\ AllDigits(ss) /\ AllDigits(mmm)
        /\ Len(hh) = 2 \/ hh[1] # "0"
        /\ ParseNat(hh) = ms \div 3600000
        /\ ParseNat(mm) \in 0..59
        /\ ParseNat(ss) \in 0..59
        /\ ParseNat(mmm) \in 0..999
        /\ ParseNat(hh) * 3600000 + ParseNat(mm) * 60000 + ParseNat(ss) * 1000
              + ParseNat(mmm) = ms

\* The renderings the claim names.
NamedRendering(stamp, ms) ==
    /\ ms = 0 => stamp = <<"0","0",":","0","0",":","0","0",",","0","0","0">>
    /\ ms = 3661234 => stamp = <<"0","1",":","0","1",":","0","1",",","2","3","4">>
    /\ ms = 3600000 => stamp = <<"0","1",":","0","0",":","0","0",",","0","0","0">>

\* C9: what format_timestamp returned for the start and the end of the cue
\* last formatted reads as HH:MM:SS,mmm with hours = ms div 3,600,000 in at
\* least two digits, minutes and seconds below 60, milliseconds below 1000,
\* and the fields add up to the millisecond count.
C9_TimestampFields ==
    \A t \in Threads :
        req[t].stamps # <<>> =>
            /\ req[t].start_ms >= 0 /\ req[t].end_ms >= 0
            /\ ReadsAs(req[t].stamps[1], req[t].start_ms)
            /\ ReadsAs(req[t].stamps[2], req[t].end_ms)
            /\ NamedRendering(req[t].stamps[1], req[t].start_ms)
            /\ NamedRendering(req[t].stamps[2], req[t].end_ms)

\* A cue from 99:59:59,999 to 100:00:00,000 was rendered: the hours take a
\* third digit.
C9_HundredHours ==
    \E t \in Threads :
        /\ req[t].stamps # <<>>
        /\ req[t].start_ms = 359999999 /\ req[t].end_ms = 360000000
        /\ req[t].stamps[1] = <<"9","9",":","5","9",":","5","9",",","9","9","9">>
        /\ req[t].stamps[2] = <<"1","0","0",":","0","0",":","0","0",",","0","0","0">>

\* C10: "txt" output is each cue's text followed by one newline, in input
\* order, and nothing else; what is sent is the whole document, the empty
\* string for no cues.
C10_TxtLines ==
    \A t \in Threads :
        Formatting(t, "txt") =>
            /\ req[t].subtitle_content = ExpectedTxt(req[t].transcript, req[t].i)
            /\ req[t].stamps = <<>>
            /\ req[t].pc # "format" =>
                  /\ req[t].i = Len(req[t].transcript)
                  /\ Sent(t)
                  /\ req[t].response.body
                        = Encode(ExpectedTxt(req[t].transcript, Len(req[t].transcript)))
                  /\ Len(req[t].transcript) = 0 => req[t].response.body = <<>>

\* Two cues, the second with a text of two lines, were sent as "txt".
C10_TwoCuesSent ==
    \E t \in Threads :
        /\ Formatting(t, "txt") /\ Sent(t)
        /\ req[t].transcript = <<Cue(<<"H", "i">>, 0, 3000), Cue(<<"a", NL, "b">>, 0, 3000)>>
        /\ req[t].subtitle_content = <<"H", "i", NL, "a", NL, "b", NL>>
        /\ req[t].response.body = <<72, 105, 10, 97, 10, 98, 10>>

-----------------------------------------------------------------------------
(* Outcome of a formatting that fails part-way *)

\* Whether formatting the cue in the given mode raises: the "txt" loop reads
\* only the text, the "srt" loop reads all three keys.
CueFails(format, cue) ==
    CASE format = "txt" -> cue.missing = "text"
      [] format = "srt" -> cue.missing # ""
      [] OTHER -> FALSE

\* The whole document of a cue sequence in the given mode.
ExpectedDocument(format, cues) ==
    IF format = "txt" THEN ExpectedTxt(cues, Len(cues)) ELSE ExpectedSrt(cues, Len(cues))

\* The download request of thread t got a transcript and a supported format.
Formatted(t) ==
    /\ req[t].handler = "download_subtitle"
    /\ req[t].called
    /\ req[t].transcript # <<>>
    /\ req[t].file_format \in {"txt", "srt"}

\* C11: a download request gets either the complete document of all its cues
\* or an error response with no document; when formatting fails at some cue,
\* what had been assembled up to that cue is never sent.
C11_CompleteOrError ==
    \A t \in Threads :
        (req[t].handler = "download_subtitle" /\ req[t].response # NoResponse) =>
            /\ \/ /\ Sent(t)
                  /\ \A k \in 1..Len(req[t].transcript) :
                         ~CueFails(req[t].file_format, req[t].transcript[k])
                  /\ req[t].response.body
                        = Encode(ExpectedDocument(req[t].file_format, req[t].transcript))
               \/ /\ req[t].response.status >= 400
                  /\ req[t].response.body = <<>>
            /\ (\E k \in 1..Len(req[t].transcript) :
                    CueFails(req[t].file_format, req[t].transcript[k]))
                  => req[t].response.status = 500

\* An "srt" formatting failed at the second of two cues after one block and
\* the head of the second had been assembled; the answer is the error.
C11_FailedAtSecondCue ==
    \E t \in Threads :
        /\ Formatted(t) /\ req[t].file_format = "srt"
        /\ Len(req[t].transcript) = 2
        /\ req[t].transcript[2].missing = "text"
        /\ req[t].i = 1
        /\ Len(req[t].subtitle_content) > Len(ExpectedSrt(req[t].transcript, 1))
        /\ req[t].response.status = 500
        /\ req[t].response.body = <<>>

-----------------------------------------------------------------------------
(* Formatting depends on the cues and the mode only *)

\* The first n cues rendered in the given mode.
ExpectedPrefix(format, cues, n) ==
    IF format = "txt" THEN ExpectedTxt(cues, n) ELSE ExpectedSrt(cues, n)

\* C12: every step of the formatter leaves the proxy cursor and the proxy
\* environment as they were, and what it has assembled, and what it sends,
\* is the rendering of the cues in the mode, a value in which neither the
\* cursor, the environment nor any earlier request occurs; so two runs over
\* the same cues and mode give the same output.
C12_FormattingPure ==
    [][\A t \in Threads :
          (req[t].pc = "format" /\ req'[t] # req[t]) =>
              /\ current_proxy_index' = current_proxy_index
              /\ environ' = environ
              /\ PROXIES_URLS_CLEANED' = PROXIES_URLS_CLEANED
              /\ (req'[t].outcome = "ok" /\ req'[t].file_format \in {"txt", "srt"}) =>
                    req'[t].subtitle_content
                        = ExpectedPrefix(req'[t].file_format, req'[t].transcript, req'[t].i)
              /\ req'[t].response.message = "file" =>
                    req'[t].response.body
                        = Encode(ExpectedDocument(req'[t].file_format, req'[t].transcript))
      ]_vars

\* An "srt" document of one cue has been sent by the fourth request or a
\* later one, with the cursor advanced and the proxy variables set.
C12_SentAfterEarlierRequests ==
    \E t \in Threads :
        /\ Sent(t) /\ req[t].handler = "download_subtitle"
        /\ req[t].file_format = "srt"
        /\ Len(req[t].transcript) = 1
        /\ started >= 4
        /\ current_proxy_index >= 3
        /\ environ.HTTPS_PROXY # None

-----------------------------------------------------------------------------
(* MIME type and filename of a download *)

\* C13: a download that sent a file did so with the MIME type and the
\* filename its parameters determine: "txt" gives text/plain and
\* <videoId>_<lang>.txt; "srt" or no format parameter gives
\* application/x-subrip and <videoId>_<lang>.srt.
C13_MimeAndFilename ==
    \A t \in Threads :
        (req[t].handler = "download_subtitle" /\ Sent(t)) =>
            LET stem == req[t].video_id \o "_" \o req[t].lang
            IN  /\ req[t].format_arg \in {"txt", "srt", None}
                /\ req[t].format_arg = "txt" =>
                      /\ req[t].response.mimetype = "text/plain"
                      /\ req[t].response.filename = stem \o ".txt"
                /\ req[t].format_arg \in {"srt", None} =>
                      /\ req[t].response.mimetype = "application/x-subrip"
                      /\ req[t].response.filename = stem \o ".srt"

\* A download of video v2 in German without a format parameter has sent
\* v2_de.srt.
C13_DefaultFormatSent ==
    \E t \in Threads :
        /\ req[t].handler = "download_subtitle" /\ Sent(t)
        /\ req[t].format_arg = None
        /\ req[t].video_id = "v2" /\ req[t].lang = "de"
        /\ req[t].response.filename = "v2_de.srt"

-----------------------------------------------------------------------------
(* The proxy environment between requests *)

Quiet == \A t \in Threads : ~InProgress(t)

\* C14: whenever no request is in progress and some request that passed
\* validation has returned its response, whatever that response is, neither
\* HTTP_PROXY nor HTTPS_PROXY is set.
C14_EnvClearedWhenQuiet ==
    (Quiet /\ \E t \in Threads : req[t].pc = "done" /\ req[t].called)
        => (environ.HTTP_PROXY = None /\ environ.HTTPS_PROXY = None)

\* Two requests that each selected a proxy and made their call have both
\* returned, one of them with the KeyError raised while clearing, and the
\* environment is clear.
C14_QuietAfterRacingClears ==
    /\ Quiet
    /\ environ = NoEnv
    /\ \E t, u \in Threads :
          /\ t # u
          /\ req[t].pc = "done" /\ req[t].called /\ Selected(t)
          /\ req[u].pc = "done" /\ req[u].called /\ Selected(u)
          /\ req[t].response = Unhandled("KeyError")

-----------------------------------------------------------------------------
(* Failures of the caption retrieval *)

RetrievalFailures ==
    {"TranscriptsDisabled", "NoTranscriptFound", "RequestException", "Exception"}

\* The status the claim gives for each failure.
FailureStatus(outcome) ==
    CASE outcome \in {"TranscriptsDisabled", "NoTranscriptFound"} -> 404
      [] outcome = "RequestException" -> 503
      [] OTHER -> 500

\* C15: from the failing retrieval call of fetch_subtitles or
\* download_subtitle on, every step of the request leaves the cursor where
\* the selection put it and the request's response is the error of its
\* failure: 404 for TranscriptsDisabled and NoTranscriptFound, 503 for a
\* RequestException, 500 for anything else, never a success.
C15_FailureMapsToFixedError ==
    [][\A t \in Threads :
          (/\ req'[t] # req[t]
           /\ req'[t].handler \in {"fetch_subtitles", "download_subtitle"}
           /\ req'[t].outcome \in RetrievalFailures) =>
              /\ req'[t].response.status = FailureStatus(req'[t].outcome)
              /\ req'[t].response.body = <<>>
              /\ current_proxy_index' = current_proxy_index
      ]_vars

-----------------------------------------------------------------------------
(* Requests rejected by validation *)

\* The parameters of the request do not pass the handler's validation.
Invalid(r) ==
    \/ r.video_id = ""
    \/ r.handler = "download_subtitle" /\ r.lang = ""

\* C16: a request whose parameters do not pass validation is answered 400 in
\* the step that receives it, without a selection and without a downstream
\* call, and neither that step nor the return of the response changes the
\* cursor, the proxies handed out or HTTP_PROXY/HTTPS_PROXY.
C16_RejectedLeavesNoTrace ==
    [][\A t \in Threads :
          /\ (req[t].pc = "idle" /\ req'[t].pc # "idle" /\ Invalid(req'[t])) =>
                /\ req'[t].pc = "done"
                /\ req'[t].response.status = 400
                /\ ~req'[t].called /\ req'[t].selected_proxy = None
                /\ current_proxy_index' = current_proxy_index
                /\ environ' = environ
                /\ handed' = handed
          /\ (req[t].pc = "done" /\ Invalid(req[t]) /\ req'[t] # req[t]) =>
                /\ ~req[t].called
                /\ current_proxy_index' = current_proxy_index
                /\ environ' = environ
      ]_vars

\* After an earlier request has advanced the cursor, a download without lang
\* has been answered 400.
C16_RejectedAfterSelection ==
    \E t \in Threads :
        /\ req[t].handler = "download_subtitle" /\ req[t].pc = "done"
        /\ req[t].video_id = "vid" /\ req[t].lang = ""
        /\ req[t].response = Json(400, "video_id_and_lang_required")
        /\ current_proxy_index >= 1
        /\ environ = NoEnv

-----------------------------------------------------------------------------
(* Accounts *)

\* The rows inserted by the register view.
Registered == {u \in users : u.via = "register"}

\* C17: the register view inserts a user only into an empty table, so at
\* most one row of the table was inserted by it, however the registration
\* requests overlap.
C17_AtMostOneRegistered ==
    /\ Cardinality(Registered) <= 1
    /\ \A u \in Registered : u.id = 1

\* The view of thread t has answered an anonymous POST to reset_request.
ResetRequested(t) ==
    /\ view[t].view = "reset_request" /\ view[t].pc = "done"
    /\ ~view[t].authenticated
    /\ view[t].form.submitted /\ view[t].form.email # ""

\* C18: two anonymous reset requests that submitted the same email have the
\* same response (flash message, redirect target or template, form errors),
\* whether or not an account with that email existed when each was served.
C18_SameResponseForAnEmail ==
    \A t, u \in Threads :
        (/\ ResetRequested(t) /\ ResetRequested(u)
         /\ view[t].form.email = view[u].form.email)
            => view[t].response = view[u].response

\* The reset_token view of thread t has accepted its token.
TokenAccepted(t) ==
    /\ view[t].view = "reset_token"
    /\ ~view[t].authenticated
    /\ \/ view[t].pc = "set_password"
       \/ view[t].pc = "done" /\ view[t].response.kind = "render"
       \/ view[t].pc = "done" /\ view[t].response.flash = "password_updated"

\* C19: a token is accepted, and the password changed with it, only when
\* less than expires_sec seconds had passed between get_reset_token issuing
\* it and the reset_token view verifying it.
C19_TokenExpires ==
    \A t \in Threads :
        TokenAccepted(t) =>
            view[t].verified_at - view[t].token.issued_at < expires_sec

====
